---- MODULE Spec2Model ----
(***************************************************************************)
(* FeishuChannel.sendMessage (src/lib/channels/feishu.ts) as a state       *)
(* machine: several invocations of the async method, each suspended at its *)
(* await points, the caller-owned message objects they mutate in place,    *)
(* the wall clock, and the requests handed to fetch.                       *)
(*                                                                         *)
(* Strings are sequences of one-character strings, so that concatenation,  *)
(* decimal formatting and JSON parsing are computed rather than assumed.   *)
(***************************************************************************)
EXTENDS Integers, Sequences, FiniteSets, TLC

\* ------------------------------------------------------------ bounds
NumCalls == 2      \* invocations of sendMessage in flight at once
MaxTicks == 1      \* clock advances of half a second each

\* ------------------------------------------------------------ JS values
\* A JavaScript value of the kinds the messages use, in one record shape.
JUndef == [t |-> "undefined", s |-> <<>>, n |-> 0, keys |-> <<>>, kids |-> <<>>]
JStr(chars) == [t |-> "string", s |-> chars, n |-> 0, keys |-> <<>>, kids |-> <<>>]
JNum(k) == [t |-> "number", s |-> <<>>, n |-> k, keys |-> <<>>, kids |-> <<>>]
JArr(elems) == [t |-> "array", s |-> <<>>, n |-> 0, keys |-> <<>>, kids |-> elems]
JObj(ks, vs) == [t |-> "object", s |-> <<>>, n |-> 0, keys |-> ks, kids |-> vs]

\* typeof v === 'string'
IsString(v) == v.t = "string"

\* JavaScript truthiness of an optional string (undefined and "" are falsy)
Truthy(v) ==
  \/ v.t = "string" /\ v.s # <<>>
  \/ v.t = "number" /\ v.n # 0
  \/ v.t \in {"array", "object"}

\* o.k : the member of an object, undefined when it has none
Get(o, k) ==
  IF o.t = "object" /\ \E j \in 1..Len(o.keys) : o.keys[j] = k
  THEN o.kids[CHOOSE j \in 1..Len(o.keys) : o.keys[j] = k]
  ELSE JUndef

\* o.k = v : in-place assignment, appending the key when it is new
Put(o, k, v) ==
  IF \E j \in 1..Len(o.keys) : o.keys[j] = k
  THEN [o EXCEPT !.kids[CHOOSE j \in 1..Len(o.keys) : o.keys[j] = k] = v]
  ELSE [o EXCEPT !.keys = Append(@, k), !.kids = Append(@, v)]

\* ------------------------------------------------------------ JSON.parse
Digit == {"0", "1", "2", "3", "4", "5", "6", "7", "8", "9"}
DigitChar == <<"0", "1", "2", "3", "4", "5", "6", "7", "8", "9">>
DigitVal(c) == (CHOOSE j \in 1..Len(DigitChar) : DigitChar[j] = c) - 1

ParseFail == [ok |-> FALSE, v |-> JUndef, rest |-> <<>>]
ParseOk(val, remaining) == [ok |-> TRUE, v |-> val, rest |-> remaining]

\* length of the longest prefix of s made of characters satisfying the test
RECURSIVE DigitRun(_)
DigitRun(s) == IF s # <<>> /\ Head(s) \in Digit THEN 1 + DigitRun(Tail(s)) ELSE 0

RECURSIVE QuoteAt(_)
\* index of the first double quote of s, 0 when there is none
QuoteAt(s) ==
  IF s = <<>> THEN 0
  ELSE IF Head(s) = "\"" THEN 1
  ELSE LET r == QuoteAt(Tail(s)) IN IF r = 0 THEN 0 ELSE r + 1

RECURSIVE NumVal(_)
NumVal(ds) == IF ds = <<>> THEN 0 ELSE 10 * NumVal(SubSeq(ds, 1, Len(ds) - 1)) + DigitVal(ds[Len(ds)])

From(s, j) == SubSeq(s, j, Len(s))

RECURSIVE ParseValue(_)
RECURSIVE ParseElems(_, _)
RECURSIVE ParseMembers(_, _, _)

\* one JSON value at the head of s (no whitespace, escapes, literals or
\* fractions: the subset of the grammar the inputs below are written in)
ParseValue(s) ==
  IF s = <<>> THEN ParseFail
  ELSE IF Head(s) \in Digit
    THEN LET k == DigitRun(s) IN
         IF k > 1 /\ Head(s) = "0" THEN ParseFail
         ELSE ParseOk(JNum(NumVal(SubSeq(s, 1, k))), From(s, k + 1))
  ELSE IF Head(s) = "\""
    THEN LET q == QuoteAt(Tail(s)) IN
         IF q = 0 THEN ParseFail
         ELSE ParseOk(JStr(SubSeq(s, 2, q)), From(s, q + 2))
  ELSE IF Head(s) = "["
    THEN IF Len(s) >= 2 /\ s[2] = "]" THEN ParseOk(JArr(<<>>), From(s, 3))
         ELSE ParseElems(Tail(s), <<>>)
  ELSE IF Head(s) = "{"
    THEN IF Len(s) >= 2 /\ s[2] = "}" THEN ParseOk(JObj(<<>>, <<>>), From(s, 3))
         ELSE ParseMembers(Tail(s), <<>>, <<>>)
  ELSE ParseFail

\* value (, value)* ]
ParseElems(s, acc) ==
  LET r == ParseValue(s) IN
  IF ~r.ok \/ r.rest = <<>> THEN ParseFail
  ELSE IF Head(r.rest) = "," THEN ParseElems(Tail(r.rest), Append(acc, r.v))
  ELSE IF Head(r.rest) = "]" THEN ParseOk(JArr(Append(acc, r.v)), Tail(r.rest))
  ELSE ParseFail

\* "key" : value (, "key" : value)* }
ParseMembers(s, ks, vs) ==
  LET k == ParseValue(s) IN
  IF ~k.ok \/ k.v.t # "string" \/ k.rest = <<>> \/ Head(k.rest) # ":" THEN ParseFail
  ELSE LET r == ParseValue(Tail(k.rest))
           o == Put(JObj(ks, vs), k.v.s, r.v) IN
       IF ~r.ok \/ r.rest = <<>> THEN ParseFail
       ELSE IF Head(r.rest) = "," THEN ParseMembers(Tail(r.rest), o.keys, o.kids)
       ELSE IF Head(r.rest) = "}" THEN ParseOk(o, Tail(r.rest))
       ELSE ParseFail

\* JSON.parse(text): ok = FALSE stands for the SyntaxError it throws
JSONparse(text) ==
  LET r == ParseValue(text) IN
  IF r.ok /\ r.rest = <<>> THEN r ELSE ParseFail

\* ------------------------------------------------------------ property names
kText == <<"t", "e", "x", "t">>
kPost == <<"p", "o", "s", "t">>
kZhCn == <<"z", "h", "_", "c", "n">>
kTitle == <<"t", "i", "t", "l", "e">>
kContent == <<"c", "o", "n", "t", "e", "n", "t">>
kCard == <<"c", "a", "r", "d">>
kMsg == <<"m", "s", "g">>

\* ------------------------------------------------------------ signing
\* crypto.subtle.sign('HMAC', key, data) with SHA-256, as a term: two
\* signatures are equal exactly when their keys and their data are.
HmacSha256(key, data) == [alg |-> "HMAC-SHA256", key |-> key, data |-> data]

\* btoa(String.fromCharCode(...bytes)), as a term over the signed bytes
Btoa(bytes) == [t |-> "base64", of |-> bytes]

\* the sign property of a message that has none
SignUndef == [t |-> "undefined", of |-> HmacSha256(<<>>, <<>>)]

\* importKey('raw', encode(secret)) is the key; the signed data is
\* encode(timestamp + "\n" + secret)
generateFeishuSign(secret, timestamp) ==
  Btoa(HmacSha256(secret, timestamp \o <<"\n">> \o secret))

\* ------------------------------------------------------------ clock
RECURSIVE ToDecimal(_)
\* Number.prototype.toString() of a non-negative integer
ToDecimal(k) ==
  IF k < 10 THEN <<DigitChar[k + 1]>>
  ELSE Append(ToDecimal(k \div 10), DigitChar[(k % 10) + 1])

\* Math.floor(Date.now() / 1000).toString()
UnixSeconds(nowMs) == ToDecimal(nowMs \div 1000)

\* ------------------------------------------------------------ messages
\* interface FeishuMessage
Message(type, content) ==
  [msg_type |-> type, content |-> content, timestamp |-> JUndef, sign |-> SignUndef]

\* a message slot the caller has not filled yet
NoMessage == Message("", JUndef)

\* the outcome of an invocation
Pending == [kind |-> "pending", id |-> "", detail |-> <<>>]
Returned == [kind |-> "Response", id |-> "", detail |-> <<>>]
Thrown(id, detail) == [kind |-> "Error", id |-> id, detail |-> detail]
\* response.json() on a body that is not JSON
JsonSyntaxError == [kind |-> "SyntaxError", id |-> "", detail |-> <<>>]
\* fetch rejecting: the transport failed before any status was received
FetchRejected == [kind |-> "TypeError", id |-> "fetch failed", detail |-> <<>>]

\* the four messages of the thrown Errors
WebhookEmpty == Thrown("Webhook must not be empty", <<>>)
PostFormatError == Thrown("rich text content is not valid JSON", <<>>)
CardFormatError == Thrown("interactive card content is not valid JSON", <<>>)
PushFailed(msg) == Thrown("push failed: ", msg)

\* message.content.post?.zh_cn.content
PostContent(m) ==
  LET post == Get(m.content, kPost) IN
  IF post.t = "undefined" THEN JUndef ELSE Get(Get(post, kZhCn), kContent)

\* message.content.post.zh_cn.content = v
SetPostContent(m, v) ==
  LET post == Get(m.content, kPost)
      zh == Get(post, kZhCn) IN
  [m EXCEPT !.content = Put(@, kPost, Put(post, kZhCn, Put(zh, kContent, v)))]

\* the rich-text block: parse the content when it is a string
NormalizePost(m) ==
  IF m.msg_type = "post" /\ IsString(PostContent(m))
  THEN LET p == JSONparse(PostContent(m).s) IN
       IF p.ok THEN [err |-> Pending, m |-> SetPostContent(m, p.v)]
       ELSE [err |-> PostFormatError, m |-> m]
  ELSE [err |-> Pending, m |-> m]

\* (mutant) the card block without its msg_type test
NormalizeCard_AnyType(m) ==
  IF IsString(Get(m.content, kCard))
  THEN LET p == JSONparse(Get(m.content, kCard).s) IN
       IF p.ok THEN [err |-> Pending, m |-> [m EXCEPT !.content = Put(@, kCard, p.v)]]
       ELSE [err |-> CardFormatError, m |-> m]
  ELSE [err |-> Pending, m |-> m]

\* (mutant) the card block throwing the rich-text block's message
NormalizeCard_PostMessage(m) ==
  IF m.msg_type = "interactive" /\ IsString(Get(m.content, kCard))
  THEN LET p == JSONparse(Get(m.content, kCard).s) IN
       IF p.ok THEN [err |-> Pending, m |-> [m EXCEPT !.content = Put(@, kCard, p.v)]]
       ELSE [err |-> PostFormatError, m |-> m]
  ELSE [err |-> Pending, m |-> m]

\* the card block: parse the card when it is a string
NormalizeCard(m) ==
  IF m.msg_type = "interactive" /\ IsString(Get(m.content, kCard))
  THEN LET p == JSONparse(Get(m.content, kCard).s) IN
       IF p.ok THEN [err |-> Pending, m |-> [m EXCEPT !.content = Put(@, kCard, p.v)]]
       ELSE [err |-> CardFormatError, m |-> m]
  ELSE [err |-> Pending, m |-> m]

\* (mutant) the millisecond clock text written where the seconds are signed
AttachTimestamp_Millis(m, timestamp) ==
  [m EXCEPT !.timestamp = JStr(timestamp \o <<"0", "0", "0">>)]

\* message.timestamp = timestamp
AttachTimestamp(m, timestamp) == [m EXCEPT !.timestamp = JStr(timestamp)]

\* message.sign = await generateFeishuSign(secret, timestamp)
AttachSign(m, secret, timestamp) ==
  [m EXCEPT !.sign = generateFeishuSign(secret, timestamp)]

\* (mutant) the normalisations moved above the webhook check
Prepare_NormalizeFirst(m, options, nowMs) ==
  LET a == NormalizePost(m) IN
    IF a.err # Pending
    THEN [next |-> "throw", err |-> a.err, m |-> a.m, timestamp |-> <<>>]
    ELSE LET b == NormalizeCard(a.m) IN
      IF b.err # Pending
      THEN [next |-> "throw", err |-> b.err, m |-> b.m, timestamp |-> <<>>]
      ELSE IF ~Truthy(options.webhook)
        THEN [next |-> "throw", err |-> WebhookEmpty, m |-> b.m, timestamp |-> <<>>]
        ELSE IF Truthy(options.secret)
        THEN [next |-> "sign", err |-> Pending,
              m |-> AttachTimestamp(b.m, UnixSeconds(nowMs)),
              timestamp |-> UnixSeconds(nowMs)]
        ELSE [next |-> "fetch", err |-> Pending, m |-> b.m, timestamp |-> <<>>]

\* (mutant) the timestamp written before the normalisations
Prepare_TimestampFirst(m, options, nowMs) ==
  IF ~Truthy(options.webhook)
  THEN [next |-> "throw", err |-> WebhookEmpty, m |-> m, timestamp |-> <<>>]
  ELSE LET t == IF Truthy(options.secret)
                THEN AttachTimestamp(m, UnixSeconds(nowMs)) ELSE m
           a == NormalizePost(t) IN
    IF a.err # Pending
    THEN [next |-> "throw", err |-> a.err, m |-> a.m, timestamp |-> <<>>]
    ELSE LET b == NormalizeCard(a.m) IN
      IF b.err # Pending
      THEN [next |-> "throw", err |-> b.err, m |-> b.m, timestamp |-> <<>>]
      ELSE IF Truthy(options.secret)
        THEN [next |-> "sign", err |-> Pending, m |-> b.m,
              timestamp |-> UnixSeconds(nowMs)]
        ELSE [next |-> "fetch", err |-> Pending, m |-> b.m, timestamp |-> <<>>]

\* sendMessage from its entry to its first await: the webhook check, the two
\* normalisations and, with a secret, the timestamp.  next is where it goes on:
\* "throw", "sign" (awaiting generateFeishuSign) or "fetch".
Prepare(m, options, nowMs) ==
  IF ~Truthy(options.webhook)
  THEN [next |-> "throw", err |-> WebhookEmpty, m |-> m, timestamp |-> <<>>]
  ELSE LET a == NormalizePost(m) IN
    IF a.err # Pending
    THEN [next |-> "throw", err |-> a.err, m |-> a.m, timestamp |-> <<>>]
    ELSE LET b == NormalizeCard(a.m) IN
      IF b.err # Pending
      THEN [next |-> "throw", err |-> b.err, m |-> b.m, timestamp |-> <<>>]
      ELSE IF Truthy(options.secret)
        THEN [next |-> "sign", err |-> Pending,
              m |-> AttachTimestamp(b.m, UnixSeconds(nowMs)),
              timestamp |-> UnixSeconds(nowMs)]
        ELSE [next |-> "fetch", err |-> Pending, m |-> b.m, timestamp |-> <<>>]

\* ------------------------------------------------------------ JSON.stringify
RECURSIVE Strip(_)
RECURSIVE StripMembers(_, _, _)
\* the value as it is on the wire: members whose value is undefined are gone
Strip(v) ==
  IF v.t = "object" THEN StripMembers(v.keys, v.kids, JObj(<<>>, <<>>))
  ELSE IF v.t = "array" THEN JArr([j \in 1..Len(v.kids) |-> Strip(v.kids[j])])
  ELSE v

StripMembers(ks, vs, acc) ==
  IF ks = <<>> THEN acc
  ELSE StripMembers(Tail(ks), Tail(vs),
         IF Head(vs).t = "undefined" THEN acc ELSE Put(acc, Head(ks), Strip(Head(vs))))

\* JSON.stringify(message): fields lists the top-level properties written
Stringify(m) ==
  [fields |-> <<"msg_type", "content">>
                \o (IF m.timestamp.t = "undefined" THEN <<>> ELSE <<"timestamp">>)
                \o (IF m.sign.t = "undefined" THEN <<>> ELSE <<"sign">>),
   msg_type |-> m.msg_type,
   content |-> Strip(m.content),
   timestamp |-> m.timestamp.s,
   sign |-> m.sign]

HasField(body, f) == \E j \in 1..Len(body.fields) : body.fields[j] = f

\* (mutant) the request sent a second time
PostRequest_Twice(log, webhook, m) ==
  log \o << [url |-> webhook.s, method |-> "POST",
             contentType |-> "application/json", body |-> Stringify(m)],
            [url |-> webhook.s, method |-> "POST",
             contentType |-> "application/json", body |-> Stringify(m)] >>

\* fetch(webhook, {method: 'POST', headers, body}): one more request on the
\* log of the requests this invocation has handed to the transport
PostRequest(log, webhook, m) ==
  Append(log, [url |-> webhook.s, method |-> "POST",
               contentType |-> "application/json", body |-> Stringify(m)])

\* after fetch resolves: return the response, or read its body to throw
AfterFetch(response) == IF response.ok THEN "return" ELSE "json"

RECURSIVE ToText(_)
RECURSIVE JoinText(_)
\* `${v}`: the text a template literal renders a value as
ToText(v) ==
  IF v.t = "string" THEN v.s
  ELSE IF v.t = "number" THEN ToDecimal(v.n)
  ELSE IF v.t = "array" THEN JoinText(v.kids)
  ELSE IF v.t = "object"
    THEN <<"[", "o", "b", "j", "e", "c", "t", " ", "O", "b", "j", "e", "c", "t", "]">>
  ELSE <<"u", "n", "d", "e", "f", "i", "n", "e", "d">>

\* Array.prototype.join(","), where an undefined element renders as nothing
JoinText(elems) ==
  IF elems = <<>> THEN <<>>
  ELSE (IF Head(elems).t = "undefined" THEN <<>> ELSE ToText(Head(elems)))
       \o (IF Len(elems) > 1 THEN <<",">> \o JoinText(Tail(elems)) ELSE <<>>)

\* const data = await response.json(); throw new Error(`...: ${data.msg}`)
DeliveryFailure(bodyText) ==
  LET p == JSONparse(bodyText) IN
  IF ~p.ok THEN JsonSyntaxError ELSE PushFailed(ToText(Get(p.v, kMsg)))

\* ------------------------------------------------------------ inputs
Chars_hi == <<"h", "i">>
Chars_notJson == <<"n", "o", "t", " ", "j", "s", "o", "n">>
\* [[{"tag":"a"}]]
Chars_blocks ==
  <<"[", "[", "{", "\"", "t", "a", "g", "\"", ":", "\"", "a", "\"", "}", "]", "]">>
Blocks == JArr(<<JArr(<<JObj(<< <<"t", "a", "g">> >>, <<JStr(<<"a">>)>>)>>)>>)
\* {"a":1}
Chars_card == <<"{", "\"", "a", "\"", ":", "1", "}">>
Card == JObj(<< <<"a">> >>, <<JNum(1)>>)
\* {"a":1  (the closing brace is missing)
Chars_cardCut == <<"{", "\"", "a", "\"", ":", "1">>

PostOf(c) ==
  JObj(<<kZhCn>>, <<JObj(<<kTitle, kContent>>, <<JStr(<<"T">>), c>>)>>)

TextMessages ==
  { Message("text", JObj(<<kText>>, <<JStr(Chars_hi)>>)),
    Message("text", JObj(<<kText, kCard>>, <<JStr(Chars_hi), JStr(Chars_cardCut)>>)) }

PostMessages ==
  { Message("post", JObj(<<kPost>>, <<PostOf(JStr(Chars_blocks))>>)),
    Message("post", JObj(<<kPost>>, <<PostOf(JStr(Chars_notJson))>>)),
    Message("post", JObj(<<kPost, kCard>>, <<PostOf(Blocks), JStr(Chars_cardCut)>>)) }

CardMessages ==
  { Message("interactive", JObj(<<kCard>>, <<JStr(Chars_card)>>)),
    Message("interactive", JObj(<<kCard>>, <<JStr(Chars_cardCut)>>)),
    Message("interactive", JObj(<<kCard, kPost>>, <<Card, PostOf(JStr(Chars_notJson))>>)) }

\* the messages a caller builds from the three templates
InputMessages == TextMessages \cup PostMessages \cup CardMessages

Chars_url == <<"h", "t", "t", "p", "s", ":", "/", "/", "h">>

\* SendMessageOptions: webhook and secret, each absent, empty or set
InputOptions ==
  [webhook : {JStr(Chars_url)},
   secret : {JUndef, JStr(<<>>), JStr(<<"k">>), JStr(<<"z", "z">>)}]
  \cup { [webhook |-> JUndef, secret |-> JStr(<<"k">>)],
         [webhook |-> JStr(<<>>), secret |-> JUndef] }

NoOptions == [webhook |-> JUndef, secret |-> JUndef]

\* the inputs of the overlapping invocations: a text message, sent to a
\* webhook unsigned or with one of two secrets
ConcurrentMessages == { Message("text", JObj(<<kText>>, <<JStr(Chars_hi)>>)) }

ConcurrentOptions ==
  [webhook : {JStr(Chars_url)}, secret : {JUndef, JStr(<<"k">>), JStr(<<"z", "z">>)}]

\* {"msg":"bad"}
Chars_msgBad ==
  <<"{", "\"", "m", "s", "g", "\"", ":", "\"", "b", "a", "d", "\"", "}">>
\* {"code":1}
Chars_codeOnly == <<"{", "\"", "c", "o", "d", "e", "\"", ":", "1", "}">>
\* <html>
Chars_html == <<"<", "h", "t", "m", "l", ">">>

\* what the remote end may answer: Response.ok and the body text
Responses ==
  { [ok |-> TRUE, text |-> Chars_codeOnly],
    [ok |-> FALSE, text |-> Chars_msgBad],
    [ok |-> FALSE, text |-> Chars_html] }

NoResponse == [ok |-> FALSE, text |-> <<>>]

\* the answers to the overlapping invocations: success, or a refusal with msg
ConcurrentResponses ==
  { [ok |-> TRUE, text |-> Chars_codeOnly], [ok |-> FALSE, text |-> Chars_msgBad] }

\* ------------------------------------------------------------ state
VARIABLES
  now,        \* Date.now(), in milliseconds
  heap,       \* the message objects the callers hold, by reference
  holder,     \* the invocation each message object was last handed to
  pc,         \* where each invocation is
  obj,        \* message : the object the invocation was given
  opts,       \* options : the webhook and secret it was given
  supplied,   \* the value the message object had when the call was made
  timestamp,  \* const timestamp : the local of the signing block
  net,        \* the requests the invocation has handed to fetch
  resp,       \* const response
  result      \* what the invocation returned or threw

vars == <<now, heap, holder, pc, obj, opts, supplied, timestamp, net, resp, result>>

\* the invocations that may be running at once, and one message object each
Calls == 1..NumCalls
Objs == 1..NumCalls

Init ==
  /\ now = 9500
  /\ heap = [o \in Objs |-> NoMessage]
  /\ holder = [o \in Objs |-> 0]
  /\ pc = [i \in Calls |-> "idle"]
  /\ obj = [i \in Calls |-> 1]
  /\ opts = [i \in Calls |-> NoOptions]
  /\ supplied = [i \in Calls |-> NoMessage]
  /\ timestamp = [i \in Calls |-> <<>>]
  /\ net = [i \in Calls |-> <<>>]
  /\ resp = [i \in Calls |-> NoResponse]
  /\ result = [i \in Calls |-> Pending]

InFlight(i) == pc[i] \notin {"idle", "done"}

\* Each invocation owns its message object while it runs; a caller may hand
\* an object to a later call once the earlier one has settled.
Owned(o) == \E j \in Calls : InFlight(j) /\ obj[j] = o

Allocated(o) == heap[o] # NoMessage

\* a message object built for the call
NewArguments(objs, messages) ==
  { a \in [o : objs, m : messages] : ~Owned(a.o) }

\* a message object the caller still holds from a settled call, as that call
\* left it
HeldArguments(objs) ==
  { [o |-> q, m |-> heap[q]] : q \in {r \in objs : Allocated(r) /\ ~Owned(r)} }

\* sendMessage(message, options), up to its first await; i names the
\* invocation, which is a new one when the previous i has settled
Call(i, arg, options) ==
  /\ pc[i] \in {"idle", "done"}
  /\ LET p == Prepare(arg.m, options, now) IN
     /\ heap' = [heap EXCEPT ![arg.o] = p.m]
     /\ holder' = [holder EXCEPT ![arg.o] = i]
     /\ obj' = [obj EXCEPT ![i] = arg.o]
     /\ opts' = [opts EXCEPT ![i] = options]
     /\ supplied' = [supplied EXCEPT ![i] = arg.m]
     /\ timestamp' = [timestamp EXCEPT ![i] = p.timestamp]
     /\ resp' = [resp EXCEPT ![i] = NoResponse]
     /\ result' = [result EXCEPT ![i] = p.err]
     /\ IF p.next = "throw"
        THEN /\ pc' = [pc EXCEPT ![i] = "done"]
             /\ net' = [net EXCEPT ![i] = <<>>]
        ELSE IF p.next = "sign"
        THEN /\ pc' = [pc EXCEPT ![i] = "importKey"]
             /\ net' = [net EXCEPT ![i] = <<>>]
        ELSE /\ pc' = [pc EXCEPT ![i] = "fetch"]
             /\ net' = [net EXCEPT ![i] = PostRequest(<<>>, options.webhook, p.m)]
  /\ UNCHANGED now

\* (mutant) the timestamp kept in one place shared by all invocations, where
\* another invocation that is signing has overwritten it
LocalTimestamp_Shared(i) ==
  LET others == {j \in Calls : j # i /\ pc[j] \in {"importKey", "subtleSign"}} IN
  IF others = {} THEN timestamp[i]
  ELSE timestamp[CHOOSE j \in others : TRUE]

\* const timestamp: each invocation reads its own local
LocalTimestamp(i) == timestamp[i]

\* await crypto.subtle.importKey(...) settles; crypto.subtle.sign is started
ImportKeyDone(i) ==
  /\ pc[i] = "importKey"
  /\ pc' = [pc EXCEPT ![i] = "subtleSign"]
  /\ UNCHANGED <<now, heap, holder, obj, opts, supplied, timestamp, net, resp, result>>

\* await crypto.subtle.sign(...) settles: generateFeishuSign returns, the
\* message gets its sign and is handed to fetch
SignDone(i) ==
  /\ pc[i] = "subtleSign"
  /\ LET m == AttachSign(heap[obj[i]], opts[i].secret.s, LocalTimestamp(i)) IN
     /\ heap' = [heap EXCEPT ![obj[i]] = m]
     /\ net' = [net EXCEPT ![i] = PostRequest(@, opts[i].webhook, m)]
  /\ pc' = [pc EXCEPT ![i] = "fetch"]
  /\ UNCHANGED <<now, holder, obj, opts, supplied, timestamp, resp, result>>

\* await fetch(...) settles with a response
Respond(i, response) ==
  /\ pc[i] = "fetch"
  /\ resp' = [resp EXCEPT ![i] = response]
  /\ IF AfterFetch(response) = "return"
     THEN /\ pc' = [pc EXCEPT ![i] = "done"]
          /\ result' = [result EXCEPT ![i] = Returned]
     ELSE /\ pc' = [pc EXCEPT ![i] = "json"]
          /\ result' = result
  /\ UNCHANGED <<now, heap, holder, obj, opts, supplied, timestamp, net>>

\* await fetch(...) rejects: nothing catches it
FetchFails(i) ==
  /\ pc[i] = "fetch"
  /\ pc' = [pc EXCEPT ![i] = "done"]
  /\ result' = [result EXCEPT ![i] = FetchRejected]
  /\ UNCHANGED <<now, heap, holder, obj, opts, supplied, timestamp, net, resp>>

\* await response.json() settles; the delivery error is thrown
JsonDone(i) ==
  /\ pc[i] = "json"
  /\ pc' = [pc EXCEPT ![i] = "done"]
  /\ result' = [result EXCEPT ![i] = DeliveryFailure(resp[i].text)]
  /\ UNCHANGED <<now, heap, holder, obj, opts, supplied, timestamp, net, resp>>

\* half a second passes
Tick ==
  /\ now < 9500 + 500 * MaxTicks
  /\ now' = now + 500
  /\ UNCHANGED <<heap, holder, pc, obj, opts, supplied, timestamp, net, resp, result>>

\* One caller that awaits each sendMessage before it makes the next call,
\* with every message and every option.
Next ==
  \/ \E arg \in NewArguments({1}, InputMessages) \cup HeldArguments({1}),
        options \in InputOptions :
       Call(1, arg, options)
  \/ ImportKeyDone(1)
  \/ SignDone(1)
  \/ \E response \in Responses : Respond(1, response)
  \/ FetchFails(1)
  \/ JsonDone(1)
  \/ Tick

Spec == Init /\ [][Next]_vars

\* Callers that do not await: up to NumCalls invocations in flight at once,
\* interleaved at their awaits, each on a message built for it, with the
\* messages and options that reach the transport.  The invocations are
\* interchangeable, so a new one takes the first name that is free.
NextConcurrent ==
  \/ \E i \in Calls, options \in ConcurrentOptions :
       \E arg \in NewArguments({i}, ConcurrentMessages) :
         /\ \A j \in Calls : j < i => InFlight(j)
         /\ Call(i, arg, options)
  \/ \E i \in Calls : ImportKeyDone(i)
  \/ \E i \in Calls : SignDone(i)
  \/ \E i \in Calls, response \in ConcurrentResponses : Respond(i, response)
  \/ \E i \in Calls : FetchFails(i)
  \/ \E i \in Calls : JsonDone(i)
  \/ Tick

SpecConcurrent == Init /\ [][NextConcurrent]_vars

\* ------------------------------------------------------------ claims
Started(i) == pc[i] # "idle"
Posted(i) == net[i] # <<>>
Body(i) == net[i][1].body
HasWebhook(i) == Truthy(opts[i].webhook)
HasSecret(i) == Truthy(opts[i].secret)

\* a post message whose content is a string that JSON.parse rejects
MalformedPost(m) ==
  m.msg_type = "post" /\ IsString(PostContent(m)) /\ ~JSONparse(PostContent(m).s).ok

\* an interactive message whose card is a string that JSON.parse rejects
MalformedCard(m) ==
  /\ m.msg_type = "interactive"
  /\ IsString(Get(m.content, kCard))
  /\ ~JSONparse(Get(m.content, kCard).s).ok

PayloadErrors == {PostFormatError, CardFormatError}

\* the invocation got as far as the fetch call
ReachedTransport(i) ==
  \/ pc[i] \in {"fetch", "json"}
  \/ pc[i] = "done" /\ result[i] \notin PayloadErrors \cup {WebhookEmpty}

\* the message object has not been handed to another call since
NotReused(i) == holder[obj[i]] = i

\* C1: with an empty or absent webhook every call, whatever its message and
\* secret, has already failed with the missing-webhook error and has handed
\* nothing to fetch; a malformed payload does not change that.
C1_MissingWebhookFirst ==
  \A i \in Calls :
    Started(i) /\ ~HasWebhook(i) =>
      pc[i] = "done" /\ result[i] = WebhookEmpty /\ net[i] = <<>>

\* a call without webhook, with a secret and a malformed rich-text payload
C1_Witness ==
  \E i \in Calls :
    /\ Started(i) /\ opts[i].webhook = JUndef /\ HasSecret(i)
    /\ MalformedPost(supplied[i])
    /\ result[i] = WebhookEmpty

\* C2: with a webhook, a post message with a malformed content string fails
\* with the rich-text error, an interactive message with a malformed card
\* string fails with the card error, the two errors differ, and neither call
\* hands anything to fetch.
C2_MalformedPayloadErrors ==
  /\ PostFormatError # CardFormatError
  /\ \A i \in Calls :
       /\ Started(i) /\ HasWebhook(i) /\ MalformedPost(supplied[i]) =>
            pc[i] = "done" /\ result[i] = PostFormatError /\ net[i] = <<>>
       /\ Started(i) /\ HasWebhook(i) /\ MalformedCard(supplied[i]) =>
            pc[i] = "done" /\ result[i] = CardFormatError /\ net[i] = <<>>

\* a call with a webhook and a secret has failed on a malformed card
C2_Witness ==
  \E i \in Calls :
    /\ HasWebhook(i) /\ HasSecret(i) /\ MalformedCard(supplied[i])
    /\ pc[i] = "done" /\ result[i] = CardFormatError /\ net[i] = <<>>

\* C3: the body POSTed for a text message sent with a secret has timestamp
\* and sign, and sign is the signature of that call's secret with the
\* timestamp the same body carries.
C3_SignMatchesBody ==
  \A i \in Calls :
    Posted(i) /\ supplied[i].msg_type = "text" /\ HasSecret(i) =>
      /\ HasField(Body(i), "timestamp")
      /\ HasField(Body(i), "sign")
      /\ Body(i).sign = generateFeishuSign(opts[i].secret.s, Body(i).timestamp)

\* a signed text message has been POSTed after the clock moved on to another
\* second while its signature was being computed
C3_Witness ==
  \E i \in Calls :
    /\ Posted(i) /\ supplied[i].msg_type = "text" /\ HasSecret(i)
    /\ HasField(Body(i), "sign")
    /\ Body(i).timestamp # UnixSeconds(now)

\* C4: the body POSTed for a text message sent without a secret has neither
\* timestamp nor sign, whatever calls were made before.
C4_UnsignedBodyHasNoSignature ==
  \A i \in Calls :
    Posted(i) /\ supplied[i].msg_type = "text" /\ HasWebhook(i) /\ ~HasSecret(i) =>
      ~HasField(Body(i), "timestamp") /\ ~HasField(Body(i), "sign")

\* C5: the sign of a signed request is base64(HMAC-SHA256) with key
\* timestamp + "\n" + secret and with the secret as the signed data.
C5_KeyIsTimestampNewlineSecret ==
  \A i \in Calls :
    Posted(i) /\ HasSecret(i) =>
      Body(i).sign =
        Btoa(HmacSha256(timestamp[i] \o <<"\n">> \o opts[i].secret.s, opts[i].secret.s))

\* C6: a call that received a non-success response fails with the delivery
\* error, whose text is the msg of the response body when the body is JSON
\* with a msg, and the bare delivery error when the body is not JSON.
C6_NonSuccessIsDeliveryError ==
  \A i \in Calls :
    pc[i] = "done" /\ resp[i] # NoResponse /\ ~resp[i].ok =>
      /\ result[i].kind = "Error"
      /\ result[i].id = PushFailed(<<>>).id
      /\ LET p == JSONparse(resp[i].text) IN
         p.ok /\ Get(p.v, kMsg).t = "string" => result[i].detail = Get(p.v, kMsg).s

\* C7: an invocation has handed exactly one request to fetch from the moment
\* it reaches the transport step, and none before; a settled invocation,
\* whatever it returned or threw, has therefore made no second request.
C7_OneRequestPerInvocation ==
  \A i \in Calls : Len(net[i]) = IF ReachedTransport(i) THEN 1 ELSE 0

\* a call has failed on a non-success response after its one request
C7_Witness ==
  \E i \in Calls :
    /\ pc[i] = "done" /\ ~resp[i].ok /\ resp[i] # NoResponse
    /\ result[i] = PushFailed(<<"b", "a", "d">>)
    /\ Len(net[i]) = 1

\* what sendMessage makes of a message when it runs alone, start to fetch
AloneNormalized(m) == NormalizeCard(NormalizePost(m).m).m
AloneMessage(m, options, ts) ==
  IF Truthy(options.secret)
  THEN AttachSign(AttachTimestamp(AloneNormalized(m), ts), options.secret.s, ts)
  ELSE AloneNormalized(m)

\* what it returns or throws when it runs alone and is answered by response
AloneResult(m, options, posted, response) ==
  IF ~posted THEN Prepare(m, options, 0).err
  ELSE IF response = NoResponse THEN FetchRejected
  ELSE IF response.ok THEN Returned
  ELSE DeliveryFailure(response.text)

\* C8: whatever the other invocations do in between, the request of each
\* invocation, the state of its message object while it runs and its result
\* are those of the same call running alone with the same message, options,
\* clock reading and response.
C8_NoInterference ==
  \A i \in Calls :
    /\ Posted(i) =>
         net[i] = << [url |-> opts[i].webhook.s, method |-> "POST",
                      contentType |-> "application/json",
                      body |-> Stringify(AloneMessage(supplied[i], opts[i], timestamp[i]))] >>
    /\ pc[i] \in {"importKey", "subtleSign"} =>
         heap[obj[i]] = AttachTimestamp(AloneNormalized(supplied[i]), timestamp[i])
    /\ pc[i] \in {"fetch", "json"} =>
         heap[obj[i]] = AloneMessage(supplied[i], opts[i], timestamp[i])
    /\ pc[i] = "done" =>
         result[i] = AloneResult(supplied[i], opts[i], Posted(i), resp[i])

\* two signed invocations overlap: j was called, in a later second and with
\* another secret, while i was computing its signature, and j has POSTed
\* its request before i has its signature
C8_Witness ==
  \E i, j \in Calls :
    /\ pc[i] = "subtleSign" /\ pc[j] = "fetch"
    /\ HasSecret(i) /\ HasSecret(j) /\ opts[i].secret # opts[j].secret
    /\ timestamp[i] = UnixSeconds(9500) /\ timestamp[j] = UnixSeconds(10000)
    /\ Body(j).timestamp = timestamp[j]

\* the field msg_type selects is not a string (text selects none)
NothingToParse(m) ==
  \/ m.msg_type = "text"
  \/ m.msg_type = "post" /\ ~IsString(PostContent(m))
  \/ m.msg_type = "interactive" /\ ~IsString(Get(m.content, kCard))

\* C9: when the field msg_type selects is not a string, and always for a text
\* message, the call throws no payload error and POSTs the content exactly as
\* supplied, other string fields included.
C9_ParseOnlySelectedString ==
  \A i \in Calls :
    Started(i) /\ HasWebhook(i) /\ NothingToParse(supplied[i]) =>
      /\ result[i] \notin PayloadErrors
      /\ Posted(i)
           => Body(i).content = Strip(supplied[i].content)

\* a post message with structured content and a malformed string in its
\* card has been POSTed with both as supplied
C9_Witness ==
  \E i \in Calls :
    /\ Posted(i) /\ supplied[i].msg_type = "post"
    /\ ~IsString(PostContent(supplied[i]))
    /\ IsString(Get(supplied[i].content, kCard))
    /\ ~JSONparse(Get(supplied[i].content, kCard).s).ok
    /\ Body(i).content = Strip(supplied[i].content)

\* C10: after a call has failed with the missing-webhook error or a payload
\* error, and until the caller hands the object to another call, the message
\* object is exactly what was supplied.
C10_FailedCallLeavesMessage ==
  \A i \in Calls :
    /\ pc[i] = "done"
    /\ result[i] \in PayloadErrors \cup {WebhookEmpty}
    /\ NotReused(i)
    => heap[obj[i]] = supplied[i]

\* a call with a secret has failed on a malformed card
C10_Witness ==
  \E i \in Calls :
    /\ pc[i] = "done" /\ result[i] = CardFormatError /\ HasSecret(i)
    /\ NotReused(i)
    /\ heap[obj[i]] = supplied[i]

====
